---- MODULE Spec2Model ----
(***************************************************************************)
(* Model of the onion-service connection dispatcher of src/main.rs:        *)
(* the while-let loop of main that pulls StreamRequests and spawns one     *)
(* tokio task per request, handle_stream_request run by each task, and the *)
(* shutdown of the #[tokio::main] runtime when main returns.               *)
(***************************************************************************)
EXTENDS Naturals, Sequences, FiniteSets

\* Number of StreamRequests the transport source yields at most in one run.
MaxReq == 2

ReqIds == 1..MaxReq

\* main.rs:91  begin.port() == 80 || begin.port() == 443
AllowedPorts == {80, 443}

\* Ports a Begin message may declare (two allowed, one not allowed).
BeginPorts == {80, 443, 8080}

\* tor_proto IncomingStreamRequest as matched at main.rs:90-122: a Begin
\* message carrying a port, or any other message (the `_` arm).
Descriptor ==
    [kind : {"Begin"}, port : BeginPorts] \cup [kind : {"BeginDir", "Resolve"}]

NoReq == [kind |-> "none"]

VARIABLES
    pending,      \* ids queued in stream_requests, not yet pulled (oldest first)
    arrived,      \* number of StreamRequests the source has produced so far
    closed,       \* the source's sequence has ended (next() will yield None)
    loopPc,       \* position of main: "next", "exited", "dropped", "shutdown",
                  \* "returned"
    serviceHeld,  \* main still owns `service` (main.rs:43 .. 85)
    req,          \* req[i]: request descriptor of StreamRequest i
    st,           \* st[i]: state of StreamRequest i and of its task
    ops,          \* ops[i]: operations invoked on / for StreamRequest i, in order
    log,          \* log[i]: lines the program printed for StreamRequest i
    gateOrder,    \* ids in the order their match guard (the gate) was evaluated
    spawnOrder    \* ids in the order the loop pulled them and spawned their task

vars == <<pending, arrived, closed, loopPc, serviceHeld, req, st, ops, log,
          gateOrder, spawnOrder>>

\* States of a task that is suspended at an .await and can be resumed.
AwaitStates == {"accepting", "handshaking", "serving"}

\* States in which the task exists and has not finished.
InFlight == {"spawned"} \cup AwaitStates

\* States in which the task ended in a per-connection failure.
FailedStates == {"reject_failed", "accept_panicked", "tls_panicked", "serve_failed"}

\* States in which the task's future has returned or unwound.
Finished == {"rejected", "reject_failed", "accept_panicked", "tls_panicked",
             "serve_failed", "serve_complete"}

TaskStates == {"none", "queued", "cancelled"} \cup InFlight \cup Finished

\* main.rs:91  the match guard: Begin(begin) if port == 80 || port == 443
admit(d) == d.kind = "Begin" /\ d.port \in AllowedPorts

Line(msg, desc) == [msg |-> msg, desc |-> desc]

Count(s, x) == Cardinality({k \in 1..Len(s) : s[k] = x})

Init ==
    /\ pending = <<>>
    /\ arrived = 0
    /\ closed = FALSE
    /\ loopPc = "next"
    /\ serviceHeld = TRUE
    /\ req = [i \in ReqIds |-> NoReq]
    /\ st = [i \in ReqIds |-> "none"]
    /\ ops = [i \in ReqIds |-> <<>>]
    /\ log = [i \in ReqIds |-> <<>>]
    /\ gateOrder = <<>>
    /\ spawnOrder = <<>>

\* The transport source (handle_rend_requests, main.rs:55) produces a new
\* StreamRequest: a remote peer opened a stream.
SourceYield ==
    /\ ~closed
    /\ arrived < MaxReq
    /\ \E d \in Descriptor :
          /\ req' = [req EXCEPT ![arrived + 1] = d]
          /\ st' = [st EXCEPT ![arrived + 1] = "queued"]
    /\ arrived' = arrived + 1
    /\ pending' = Append(pending, arrived + 1)
    /\ UNCHANGED <<closed, loopPc, serviceHeld, ops, log, gateOrder, spawnOrder>>

\* The transport source's sequence ends: no more requests will arrive.
SourceEnd ==
    /\ ~closed
    /\ closed' = TRUE
    /\ UNCHANGED <<pending, arrived, loopPc, serviceHeld, req, st, ops, log,
                   gateOrder, spawnOrder>>

\* Variant of LoopNextSome: the loop awaits the JoinHandle of the task it
\* spawned, so it pulls again only when no task is unfinished.
LoopNextSome_JoinsTask ==
    /\ loopPc = "next"
    /\ pending # <<>>
    /\ \A j \in ReqIds : st[j] \notin InFlight
    /\ LET i == Head(pending) IN
          /\ pending' = Tail(pending)
          /\ st' = [st EXCEPT ![i] = "spawned"]
          /\ log' = [log EXCEPT ![i] = Append(@, Line("received connection", "none"))]
          /\ spawnOrder' = Append(spawnOrder, i)
    /\ UNCHANGED <<arrived, closed, loopPc, serviceHeld, req, ops, gateOrder>>

\* Variant of LoopNextSome: the pulled request stays queued, so the next
\* iteration spawns a second task for the same StreamRequest.
LoopNextSome_KeepsQueued ==
    /\ loopPc = "next"
    /\ pending # <<>>
    /\ LET i == Head(pending) IN
          /\ st' = [st EXCEPT ![i] = "spawned"]
          /\ log' = [log EXCEPT ![i] = Append(@, Line("received connection", "none"))]
          /\ spawnOrder' = Append(spawnOrder, i)
    /\ UNCHANGED <<pending, arrived, closed, loopPc, serviceHeld, req, ops, gateOrder>>

\* Variant of LoopNextSome: a request that is not a Begin message is dropped
\* by the loop without a task.
LoopNextSome_SkipsNonBegin ==
    /\ loopPc = "next"
    /\ pending # <<>>
    /\ LET i == Head(pending) IN
          /\ pending' = Tail(pending)
          /\ IF req[i].kind = "Begin"
             THEN /\ st' = [st EXCEPT ![i] = "spawned"]
                  /\ spawnOrder' = Append(spawnOrder, i)
             ELSE /\ st' = [st EXCEPT ![i] = "cancelled"]
                  /\ UNCHANGED spawnOrder
          /\ log' = [log EXCEPT ![i] = Append(@, Line("received connection", "none"))]
    /\ UNCHANGED <<arrived, closed, loopPc, serviceHeld, req, ops, gateOrder>>

\* main.rs:62-83  one iteration of the loop: next().await yields Some,
\* "received connection" is printed and the task is spawned; the loop goes
\* back to next().await without awaiting the JoinHandle.
LoopNextSome ==
    /\ loopPc = "next"
    /\ pending # <<>>
    /\ LET i == Head(pending) IN
          /\ pending' = Tail(pending)
          /\ st' = [st EXCEPT ![i] = "spawned"]
          /\ log' = [log EXCEPT ![i] = Append(@, Line("received connection", "none"))]
          /\ spawnOrder' = Append(spawnOrder, i)
    /\ UNCHANGED <<arrived, closed, loopPc, serviceHeld, req, ops, gateOrder>>

\* Variant of LoopNextNone: the loop is left as soon as no request is queued,
\* whether or not the source's sequence has ended.
LoopNextNone_OnEmpty ==
    /\ loopPc = "next"
    /\ pending = <<>>
    /\ loopPc' = "exited"
    /\ UNCHANGED <<pending, arrived, closed, serviceHeld, req, st, ops, log,
                   gateOrder, spawnOrder>>

\* main.rs:62  next().await yields None: the while-let loop is left.
LoopNextNone ==
    /\ loopPc = "next"
    /\ pending = <<>>
    /\ closed
    /\ loopPc' = "exited"
    /\ UNCHANGED <<pending, arrived, closed, serviceHeld, req, st, ops, log,
                   gateOrder, spawnOrder>>

\* Variant of DropService: main joins the tasks before it drops the service.
DropService_AfterJoin ==
    /\ loopPc = "exited"
    /\ \A i \in ReqIds : st[i] \notin InFlight
    /\ serviceHeld' = FALSE
    /\ loopPc' = "dropped"
    /\ UNCHANGED <<pending, arrived, closed, req, st, ops, log, gateOrder,
                   spawnOrder>>

\* main.rs:85-86  drop(service); "onion service exited cleanly"
DropService ==
    /\ loopPc = "exited"
    /\ serviceHeld' = FALSE
    /\ loopPc' = "dropped"
    /\ UNCHANGED <<pending, arrived, closed, req, st, ops, log, gateOrder,
                   spawnOrder>>

\* main.rs:19-20,87  main's body returns: the drop of the runtime built by
\* #[tokio::main] begins. The workers are told to shut down; a task that a
\* worker is polling, or polls before it has noticed, still runs that poll.
MainReturn ==
    /\ loopPc = "dropped"
    /\ loopPc' = "shutdown"
    /\ UNCHANGED <<pending, arrived, closed, serviceHeld, req, st, ops, log,
                   gateOrder, spawnOrder>>

\* main.rs:19-20,87  the runtime that is being dropped drops one unfinished
\* task, at the .await where it is suspended or before its first poll (the
\* StreamRequest or the stream it owns is dropped with it). The tasks are
\* dropped one by one, while other tasks may still be running a poll.
CancelTask(i) ==
    /\ loopPc = "shutdown"
    /\ st[i] \in InFlight
    /\ st' = [st EXCEPT ![i] = "cancelled"]
    /\ UNCHANGED <<pending, arrived, closed, loopPc, serviceHeld, req, ops, log,
                   gateOrder, spawnOrder>>

\* main.rs:19-20,87  the drop of the runtime is complete: every task has
\* finished or been dropped, and the function generated by #[tokio::main]
\* returns; nothing runs afterwards.
RuntimeDropped ==
    /\ loopPc = "shutdown"
    /\ \A i \in ReqIds : st[i] \notin InFlight
    /\ loopPc' = "returned"
    /\ UNCHANGED <<pending, arrived, closed, serviceHeld, req, st, ops, log,
                   gateOrder, spawnOrder>>

\* main.rs:71-74, 90-93  first poll of a task whose request passes the match
\* guard: "handling connection", "begin request", accept() is invoked and
\* awaited.
HandleBegin(i) ==
    /\ st[i] = "spawned"
    /\ admit(req[i])
    /\ gateOrder' = Append(gateOrder, i)
    /\ ops' = [ops EXCEPT ![i] = @ \o <<"gate", "accept">>]
    /\ log' = [log EXCEPT ![i] = @ \o <<Line("handling connection", "none"),
                                         Line("begin request", "none")>>]
    /\ st' = [st EXCEPT ![i] = "accepting"]
    /\ UNCHANGED <<pending, arrived, closed, loopPc, serviceHeld, req, spawnOrder>>

\* Variant of HandleReject: the error of shutdown_circuit() is returned from
\* main with `?`, which ends the loop and the runtime.
HandleReject_PropagatesToLoop(i) ==
    /\ st[i] = "spawned"
    /\ ~admit(req[i])
    /\ gateOrder' = Append(gateOrder, i)
    /\ ops' = [ops EXCEPT ![i] = @ \o <<"gate", "reject">>]
    /\ \E ok \in BOOLEAN :
          IF ok
          THEN /\ st' = [st EXCEPT ![i] = "rejected"]
               /\ log' = [log EXCEPT ![i] = @ \o
                             <<Line("handling connection", "none"),
                               Line("rejecting request", "plain")>>]
               /\ UNCHANGED loopPc
          ELSE /\ st' = [j \in ReqIds |->
                            IF j = i THEN "reject_failed"
                            ELSE IF st[j] \in InFlight THEN "cancelled" ELSE st[j]]
               /\ log' = [log EXCEPT ![i] = @ \o
                             <<Line("handling connection", "none"),
                               Line("rejecting request", "plain"),
                               Line("error serving connection", "sensitive")>>]
               /\ loopPc' = "returned"
    /\ UNCHANGED <<pending, arrived, closed, serviceHeld, req, spawnOrder>>

\* main.rs:71-81, 122-125  first poll of a task whose request falls to the
\* `_` arm: the request is printed, shutdown_circuit() is invoked; its error
\* is returned with `?` and printed by the task with sensitive(request).
HandleReject(i) ==
    /\ st[i] = "spawned"
    /\ ~admit(req[i])
    /\ gateOrder' = Append(gateOrder, i)
    /\ ops' = [ops EXCEPT ![i] = @ \o <<"gate", "reject">>]
    /\ \E ok \in BOOLEAN :
          IF ok
          THEN /\ st' = [st EXCEPT ![i] = "rejected"]
               /\ log' = [log EXCEPT ![i] = @ \o
                             <<Line("handling connection", "none"),
                               Line("rejecting request", "plain")>>]
          ELSE /\ st' = [st EXCEPT ![i] = "reject_failed"]
               /\ log' = [log EXCEPT ![i] = @ \o
                             <<Line("handling connection", "none"),
                               Line("rejecting request", "plain"),
                               Line("error serving connection", "sensitive")>>]
    /\ UNCHANGED <<pending, arrived, closed, loopPc, serviceHeld, req, spawnOrder>>

\* main.rs:93-99  accept() yields the stream: "onion_service stream", the
\* TLS handshake is started and awaited.
AcceptOk(i) ==
    /\ st[i] = "accepting"
    /\ ops' = [ops EXCEPT ![i] = Append(@, "tls")]
    /\ log' = [log EXCEPT ![i] = Append(@, Line("onion_service stream", "none"))]
    /\ st' = [st EXCEPT ![i] = "handshaking"]
    /\ UNCHANGED <<pending, arrived, closed, loopPc, serviceHeld, req, gateOrder,
                   spawnOrder>>

\* Variant of AcceptFail: a failed accept() is followed by shutdown_circuit().
AcceptFail_ThenReject(i) ==
    /\ st[i] = "accepting"
    /\ ops' = [ops EXCEPT ![i] = Append(@, "reject")]
    /\ st' = [st EXCEPT ![i] = "accept_panicked"]
    /\ UNCHANGED <<pending, arrived, closed, loopPc, serviceHeld, req, log,
                   gateOrder, spawnOrder>>

\* main.rs:93  accept() fails: unwrap() panics; the panic unwinds the task
\* only (tokio::spawn, main.rs:70) and none of the program's prints runs.
AcceptFail(i) ==
    /\ st[i] = "accepting"
    /\ st' = [st EXCEPT ![i] = "accept_panicked"]
    /\ UNCHANGED <<pending, arrived, closed, loopPc, serviceHeld, req, ops, log,
                   gateOrder, spawnOrder>>

\* main.rs:99-116  the handshake succeeds: "tls_onion_service_stream",
\* serve_connection_with_upgrades is started and awaited.
TlsOk(i) ==
    /\ st[i] = "handshaking"
    /\ ops' = [ops EXCEPT ![i] = Append(@, "serve")]
    /\ log' = [log EXCEPT ![i] = Append(@, Line("tls_onion_service_stream", "none"))]
    /\ st' = [st EXCEPT ![i] = "serving"]
    /\ UNCHANGED <<pending, arrived, closed, loopPc, serviceHeld, req, gateOrder,
                   spawnOrder>>

\* Variant of TlsFail: the panic is not confined to the task and takes the
\* other unfinished tasks down with it.
TlsFail_AbortsSiblings(i) ==
    /\ st[i] = "handshaking"
    /\ st' = [j \in ReqIds |->
                 IF j = i THEN "tls_panicked"
                 ELSE IF st[j] \in InFlight THEN "cancelled" ELSE st[j]]
    /\ UNCHANGED <<pending, arrived, closed, loopPc, serviceHeld, req, ops, log,
                   gateOrder, spawnOrder>>

\* main.rs:99  the handshake fails: unwrap() panics, as for accept().
TlsFail(i) ==
    /\ st[i] = "handshaking"
    /\ st' = [st EXCEPT ![i] = "tls_panicked"]
    /\ UNCHANGED <<pending, arrived, closed, loopPc, serviceHeld, req, ops, log,
                   gateOrder, spawnOrder>>

\* main.rs:116-128  serving ends with Ok: the handler returns Ok(()).
ServeOk(i) ==
    /\ st[i] = "serving"
    /\ st' = [st EXCEPT ![i] = "serve_complete"]
    /\ UNCHANGED <<pending, arrived, closed, loopPc, serviceHeld, req, ops, log,
                   gateOrder, spawnOrder>>

\* Variant of ServeErr: after a serve error the task goes back to a new TLS
\* handshake on the connection.
ServeErr_RestartsHandshake(i) ==
    /\ st[i] = "serving"
    /\ ops' = [ops EXCEPT ![i] = Append(@, "tls")]
    /\ log' = [log EXCEPT ![i] = Append(@, Line("error serving connection", "none"))]
    /\ st' = [st EXCEPT ![i] = "handshaking"]
    /\ UNCHANGED <<pending, arrived, closed, loopPc, serviceHeld, req,
                   gateOrder, spawnOrder>>

\* main.rs:116-128  serving ends with Err: it is printed without the
\* request and the handler still returns Ok(()).
ServeErr(i) ==
    /\ st[i] = "serving"
    /\ log' = [log EXCEPT ![i] = Append(@, Line("error serving connection", "none"))]
    /\ st' = [st EXCEPT ![i] = "serve_failed"]
    /\ UNCHANGED <<pending, arrived, closed, loopPc, serviceHeld, req, ops,
                   gateOrder, spawnOrder>>

\* One step of the task of StreamRequest i.
TaskStep(i) ==
    \/ HandleBegin(i)
    \/ HandleReject(i)
    \/ AcceptOk(i)
    \/ AcceptFail(i)
    \/ TlsOk(i)
    \/ TlsFail(i)
    \/ ServeOk(i)
    \/ ServeErr(i)

Next ==
    \/ SourceYield
    \/ SourceEnd
    \/ LoopNextSome
    \/ LoopNextNone
    \/ DropService
    \/ MainReturn
    \/ \E i \in ReqIds : CancelTask(i)
    \/ RuntimeDropped
    \/ \E i \in ReqIds : TaskStep(i)

Spec == Init /\ [][Next]_vars

\* The loop runs on the thread that block_on's main (main.rs:19-20): it is
\* scheduled fairly. Nothing makes a peer, a handshake or a serving finish, so
\* the steps of the tasks and of the source are not fair.
FairSpec ==
    /\ Spec
    /\ WF_vars(LoopNextSome)
    /\ WF_vars(LoopNextNone)
    /\ WF_vars(DropService)
    /\ WF_vars(MainReturn)

TypeOK ==
    /\ pending \in Seq(ReqIds)
    /\ arrived \in 0..MaxReq
    /\ closed \in BOOLEAN
    /\ loopPc \in {"next", "exited", "dropped", "shutdown", "returned"}
    /\ serviceHeld \in BOOLEAN
    /\ \A i \in ReqIds : req[i] \in Descriptor \cup {NoReq}
    /\ \A i \in ReqIds : st[i] \in TaskStates

\* Number of times operation op was invoked for StreamRequest i.
Invoked(i, op) == Count(ops[i], op)

\* StreamRequests the loop has pulled from the source.
Pulled == {spawnOrder[k] : k \in 1..Len(spawnOrder)}

\* StreamRequests whose gate has been evaluated.
Gated == {gateOrder[k] : k \in 1..Len(gateOrder)}

----------------------------------------------------------------------------
\* C1: accept() and reject() (shutdown_circuit) are never both invoked on the
\* same StreamRequest, in any interleaving of the loop and the tasks.
C1_NeverBothAcceptAndReject ==
    \A i \in ReqIds : ~(Invoked(i, "accept") > 0 /\ Invoked(i, "reject") > 0)

\* A request whose accept() failed next to a request that was rejected.
C1_Witness ==
    \E i, j \in ReqIds :
        /\ st[i] = "accept_panicked" /\ Invoked(i, "accept") = 1
        /\ st[j] = "rejected" /\ Invoked(j, "reject") = 1

\* C2: every StreamRequest the loop pulled has had accept() or reject()
\* invoked on it by the time the program has ended (the runtime has been
\* dropped after main's return, after which nothing runs any more), also when it was pulled shortly before the
\* source's sequence ended.
C2_PulledRequestsDecidedAtExit ==
    loopPc = "returned" =>
        \A i \in Pulled : Invoked(i, "accept") + Invoked(i, "reject") >= 1

\* The task of StreamRequest i has come to its end: its future returned or
\* unwound, or it was dropped with the runtime.
Ended(i) == st[i] \in Finished \cup {"cancelled"}

\* C3: a StreamRequest whose declared port is not in the allow-set has
\* reject() invoked exactly once (never twice, and once by the time its
\* handling has ended), never has accept() invoked and never has a TLS
\* handshake or HTTP serving started.
C3_DisallowedPortRejectedOnce ==
    \A i \in ReqIds :
        (req[i].kind = "Begin" /\ req[i].port \notin AllowedPorts) =>
            /\ Invoked(i, "accept") = 0
            /\ Invoked(i, "tls") = 0
            /\ Invoked(i, "serve") = 0
            /\ Invoked(i, "reject") <= 1
            /\ Ended(i) => Invoked(i, "reject") = 1

\* C4: a StreamRequest whose declared port is in the allow-set has accept()
\* invoked exactly once (never twice, and once by the time its handling has
\* ended) and never has reject() invoked, whatever the outcome of accept(),
\* the handshake or the serving.
C4_AllowedPortAcceptedOnce ==
    \A i \in ReqIds :
        (req[i].kind = "Begin" /\ req[i].port \in AllowedPorts) =>
            /\ Invoked(i, "reject") = 0
            /\ Invoked(i, "accept") <= 1
            /\ Ended(i) => Invoked(i, "accept") = 1

\* The step in which the TLS handshake of connection a fails.
TlsFailureOf(a) == st[a] = "handshaking" /\ st'[a] = "tls_panicked"

\* C5: the TLS handshake failure of connection A changes nothing of a sibling
\* connection B, and a B that is handshaking or serving next to a failed A can
\* still take its next step towards Serve-Complete.
C5_TlsFailureIsolated ==
    /\ [](\A a, b \in ReqIds :
             (a # b /\ st[a] = "tls_panicked") =>
                 /\ (st[b] = "handshaking" => ENABLED TlsOk(b))
                 /\ (st[b] = "serving" => ENABLED ServeOk(b)))
    /\ [][\A a, b \in ReqIds :
             (a # b /\ TlsFailureOf(a)) =>
                 /\ st'[b] = st[b]
                 /\ ops'[b] = ops[b]
                 /\ log'[b] = log[b]]_vars

\* A's handshake has failed while B is serving.
C5_Witness ==
    \E a, b \in ReqIds :
        /\ a # b
        /\ st[a] = "tls_panicked"
        /\ st[b] = "serving"

\* The step in which the task of StreamRequest i ends in a failure.
FailureOf(i) == st[i] \notin FailedStates /\ st'[i] \in FailedStates

\* C6: no per-connection failure terminates the loop: the step of the failure
\* leaves the loop where it was, and with a failed connection the loop is
\* still alive and pulls the next StreamRequest the source has yielded.
C6_FailuresNeverStopLoop ==
    /\ []((pending # <<>> /\ \E i \in ReqIds : st[i] \in FailedStates) =>
             (loopPc = "next" /\ ENABLED LoopNextSome))
    /\ [][(\E i \in ReqIds : FailureOf(i)) =>
             (loopPc' = loopPc /\ pending' = pending /\ serviceHeld' = serviceHeld)]_vars

\* The first connection has failed, the second request is queued and the loop
\* is at next().
C6_Witness ==
    /\ st[1] \in FailedStates
    /\ st[2] = "queued"
    /\ loopPc = "next"

\* C7: once the source's sequence has ended and the loop has returned, no
\* gate evaluation, accept() or reject() is invoked for any StreamRequest.
C7_NoGateAcceptRejectAfterLoop ==
    [][loopPc # "next" =>
          /\ gateOrder' = gateOrder
          /\ \A i \in ReqIds :
                /\ Invoked(i, "gate")' = Invoked(i, "gate")
                /\ Invoked(i, "accept")' = Invoked(i, "accept")
                /\ Invoked(i, "reject")' = Invoked(i, "reject")]_vars

\* C8: a task that is in flight when the loop returns is never cancelled by
\* that return and can still take the next step of its pipeline.
C8_InFlightTasksSurviveReturn ==
    \A i \in Pulled :
        loopPc # "next" =>
            /\ st[i] # "cancelled"
            /\ st[i] \in InFlight => ENABLED TaskStep(i)

\* C9: gate decisions are made in the order the source yields the requests:
\* for r1 yielded before r2, r1's gate decision (and with it r1's reject())
\* happens before r2's.
C9_GateInArrivalOrder ==
    \A k1, k2 \in 1..Len(gateOrder) : k1 < k2 => gateOrder[k1] < gateOrder[k2]

\* C10: the loop never waits for a task: at next() with a request queued it
\* can pull it whatever the earlier tasks are doing, and while it is suspended
\* at next() every unfinished task can take its next step.
C10_LoopNeverWaitsForTask ==
    /\ (loopPc = "next" /\ pending # <<>>) => ENABLED LoopNextSome
    /\ (loopPc = "next" /\ pending = <<>>) =>
          \A i \in ReqIds : st[i] \in InFlight => ENABLED TaskStep(i)

\* The second request was pulled while the first task is still handshaking.
C10_Witness ==
    /\ Len(spawnOrder) >= 2
    /\ st[spawnOrder[1]] = "handshaking"
    /\ st[spawnOrder[2]] = "spawned"

\* Lines of log[i] that carry the request descriptor in the given form.
LinesWith(i, form) == {k \in 1..Len(log[i]) : log[i][k].desc = form}

\* Lines of log[i] that report an error.
ErrorLines(i) == {k \in 1..Len(log[i]) : log[i][k].msg = "error serving connection"}

\* C11: every per-connection failure (reject, accept, TLS handshake, serving)
\* has a log line printed by the program that reports the error and carries
\* the request descriptor in redacted form.
C11_EveryFailureLoggedRedacted ==
    \A i \in ReqIds :
        st[i] \in FailedStates => ErrorLines(i) \cap LinesWith(i, "sensitive") # {}

\* C12: no log line carries a request descriptor in plain form: every line
\* that includes the descriptor includes it marked sensitive, on the reject
\* path as on the failure paths.
C12_DescriptorNeverPlain ==
    \A i \in ReqIds : LinesWith(i, "plain") = {}

\* The step in which main gives up the service handle.
ReleaseOfService == serviceHeld /\ ~serviceHeld'

\* C13: the service handle is held throughout the loop, is released only
\* when the source's sequence is exhausted (ended, nothing queued), and once
\* released is never held or released again.
C13_ServiceReleasedOnceAfterEnd ==
    /\ [](loopPc = "next" => serviceHeld)
    /\ [](~serviceHeld => (closed /\ pending = <<>> /\ ~ENABLED SourceYield))
    /\ [](loopPc \in {"dropped", "shutdown", "returned"} => ~serviceHeld)
    /\ [][serviceHeld' # serviceHeld => (ReleaseOfService /\ loopPc = "exited")]_vars

\* The handle has been released after two requests were pulled, one of which
\* is still being served.
C13_Witness ==
    /\ ~serviceHeld
    /\ Len(spawnOrder) >= 2
    /\ \E i \in ReqIds : st[i] = "serving"

\* Who owns the connection of StreamRequest i: the source, the task (the
\* StreamRequest moved into the closure, main.rs:70), the TLS acceptor (the
\* raw stream moved into accept, main.rs:99), the HTTP bridge (the encrypted
\* stream moved into serve_connection_with_upgrades, main.rs:103-116), or
\* nobody any more.
Holder(i) ==
    CASE st[i] \in {"none", "queued"} -> "source"
      [] st[i] \in {"spawned", "accepting"} -> "task"
      [] st[i] = "handshaking" -> "tls"
      [] st[i] = "serving" -> "bridge"
      [] OTHER -> "dropped"

\* Position of an owner along the pipeline.
Rank(h) ==
    CASE h = "source" -> 0
      [] h = "task" -> 1
      [] h = "tls" -> 2
      [] h = "bridge" -> 3
      [] OTHER -> 4

IsPrefix(s, t) == Len(s) <= Len(t) /\ \A k \in 1..Len(s) : s[k] = t[k]

\* C14: no StreamRequest, and so no raw or encrypted stream made from it,
\* belongs to two tasks; each stream is handed on once; ownership only moves
\* forward along the pipeline, and once the raw stream is handed to the TLS
\* acceptor the task invokes nothing on it but the serving of the encrypted
\* stream.
C14_StreamsOwnedOnceAndForward ==
    /\ [](\A k1, k2 \in 1..Len(spawnOrder) :
             k1 # k2 => spawnOrder[k1] # spawnOrder[k2])
    /\ [](\A i \in ReqIds :
             \/ IsPrefix(ops[i], <<"gate", "accept", "tls", "serve">>)
             \/ ops[i] = <<"gate", "reject">>)
    /\ [][\A i \in ReqIds : Rank(Holder(i))' >= Rank(Holder(i))]_vars

\* Two tasks at once, one whose stream is with the TLS acceptor and one whose
\* encrypted stream is with the HTTP bridge.
C14_Witness ==
    \E i, j \in ReqIds : Holder(i) = "tls" /\ Holder(j) = "bridge"

\* State of StreamRequest i in the dispatcher's state machine. The code has
\* no suspension between accept() returning and the handshake starting (Raw
\* and TLS-Handshaking are one state) nor between the handshake returning and
\* the serving starting (TLS-Ok and Serving are one state); a request whose
\* accept() failed or whose task was dropped stays where it was.
Phase(i) ==
    CASE st[i] \in {"none", "queued"} -> "NotReceived"
      [] st[i] = "spawned" -> "Received"
      [] st[i] \in {"rejected", "reject_failed"} -> "GatedReject"
      [] st[i] \in {"accepting", "accept_panicked"} -> "GatedAccept"
      [] st[i] = "handshaking" -> "TlsHandshaking"
      [] st[i] = "tls_panicked" -> "TlsFailed"
      [] st[i] = "serving" -> "Serving"
      [] st[i] = "serve_failed" -> "ServeFailed"
      [] st[i] = "serve_complete" -> "ServeComplete"
      [] st[i] = "cancelled" ->
            CASE Len(ops[i]) = 0 -> "Received"
              [] Len(ops[i]) = 2 -> "GatedAccept"
              [] Len(ops[i]) = 3 -> "TlsHandshaking"
              [] OTHER -> "Serving"

\* The transitions of the dispatcher's state machine.
PhaseEdges ==
    {<<"NotReceived", "Received">>,
     <<"Received", "GatedReject">>, <<"Received", "GatedAccept">>,
     <<"GatedAccept", "TlsHandshaking">>,
     <<"TlsHandshaking", "TlsFailed">>, <<"TlsHandshaking", "Serving">>,
     <<"Serving", "ServeFailed">>, <<"Serving", "ServeComplete">>}

\* C15: each StreamRequest moves only along the transitions of the state
\* machine; a handshake is started only after accept() succeeded, serving is
\* started only after the handshake succeeded, and no terminal state is left.
C15_OnlyStateMachineMoves ==
    /\ [](\A i \in ReqIds :
             /\ st[i] = "accept_panicked" => Invoked(i, "tls") = 0
             /\ st[i] = "tls_panicked" => Invoked(i, "serve") = 0
             /\ Invoked(i, "tls") > 0 => Invoked(i, "accept") > 0
             /\ Invoked(i, "serve") > 0 => Invoked(i, "tls") > 0)
    /\ [][\A i \in ReqIds :
             /\ Phase(i)' # Phase(i) => <<Phase(i), Phase(i)'>> \in PhaseEdges
             /\ st[i] \in Finished \cup {"cancelled"} => st'[i] = st[i]]_vars

\* One request has run to Serve-Complete, another ended in TLS-Failed.
C15_Witness ==
    \E i, j \in ReqIds : Phase(i) = "ServeComplete" /\ Phase(j) = "TlsFailed"

\* StreamRequests for which a task exists or has existed.
HasTask(i) == st[i] \notin {"none", "queued"}

\* C16: a task exists only for a StreamRequest that was admitted
\* and whose accept() was invoked before the spawn; no task is spawned for a
\* request that is rejected.
C16_TaskOnlyAfterAdmitAndAccept ==
    \A i \in ReqIds :
        HasTask(i) => (admit(req[i]) /\ i \in Gated /\ Invoked(i, "accept") = 1)

\* C17: once the source's sequence has ended, the loop returns and the clean
\* exit is reached (service dropped, main's body returned), with a fair loop
\* and whatever the tasks do.
C17_LoopExitsAfterSourceEnds ==
    closed ~> (loopPc \in {"shutdown", "returned"} /\ ~serviceHeld)

\* The service has been dropped while a task is still in its TLS handshake
\* and another in its serving.
C17_Witness ==
    /\ loopPc = "dropped"
    /\ \E i, j \in ReqIds : st[i] = "handshaking" /\ st[j] = "serving"

\* C18: a StreamRequest that is not a Begin message has reject() invoked
\* (exactly once by the time its handling has ended) and never has accept(),
\* a TLS handshake or serving invoked.
C18_NonBeginRejectedOnce ==
    \A i \in ReqIds :
        req[i].kind \in {"BeginDir", "Resolve"} =>
            /\ Invoked(i, "accept") = 0
            /\ Invoked(i, "tls") = 0
            /\ Invoked(i, "serve") = 0
            /\ Invoked(i, "reject") <= 1
            /\ Ended(i) => Invoked(i, "reject") = 1

\* Number of StreamRequests the loop has pulled from the source.
PulledCount == arrived - Len(pending)

\* C19: the number of tasks spawned equals the number of StreamRequests
\* pulled; a task is spawned for each pulled request before its gate is
\* evaluated and whatever the gate will decide, and the request a task
\* handles never changes.
C19_OneTaskPerPulledRequest ==
    /\ [](/\ Len(spawnOrder) = PulledCount
          /\ Cardinality({i \in ReqIds : HasTask(i)}) = PulledCount
          /\ Cardinality(Pulled) = PulledCount
          /\ \A i \in ReqIds : HasTask(i) <=> i \in Pulled
          /\ \A i \in ReqIds : st[i] = "spawned" => i \notin Gated)
    /\ [][\A i \in ReqIds : req[i] # NoReq => req'[i] = req[i]]_vars

\* Two requests pulled, two tasks spawned, one of them for a request that
\* is not a Begin message and one for a port-443 request.
C19_Witness ==
    /\ Len(spawnOrder) = 2
    /\ \E i, j \in ReqIds :
          /\ st[i] = "spawned" /\ req[i].kind = "Resolve"
          /\ st[j] = "spawned" /\ req[j] = [kind |-> "Begin", port |-> 443]
====
